---------------------------- MODULE Spec2Model ----------------------------
(***************************************************************************)
(* Model of the VIP Unit Converter (src/app.py).                           *)
(*                                                                         *)
(* The program is a Streamlit script: every user interaction re-runs it    *)
(* from the top.  A press of "Convert Now" runs the Manual Mode handler,   *)
(* a press of "Convert with AI" runs the AI Mode handler, any other widget *)
(* interaction re-runs the script with no button pressed.  Each handler is *)
(* synchronous and is modelled as one action.                              *)
(*                                                                         *)
(* Numbers are Python floats.  They are modelled bit for bit as IEEE-754   *)
(* binary64 values (sign, 53-bit significand, exponent) with               *)
(* round-to-nearest-even after every operation, over multi-limb naturals,  *)
(* because the model checker's integers are 32 bits wide.  A result beyond *)
(* the largest float is an infinity.  Subnormals and the sign of zero are  *)
(* outside the modelled range: no value drawn here comes near the lower    *)
(* end of the exponent range.                                              *)
(***************************************************************************)
EXTENDS Integers, Sequences, FiniteSets, TLC

VARIABLES
    api_key,        \* os.getenv("GEMINI_API_KEY") in the session's environment
    phase,          \* "idle": script waiting; "shown": a handler's output is on the page
    path,           \* which handler ran last: "none", "manual", "ai"; "stopped" when
                    \* the run ended at st.stop() before the handlers
    input,          \* the inputs that handler read (widget values, service outcome)
    messages,       \* st.success / st.error / st.warning calls of the run, in order
    parsed,         \* what parse_with_gemini returned in the run (AI path)
    engineCalls,    \* convert_units invocations of the run, in order
    serviceCalls,   \* model.generate_content invocations of the run
    fault,          \* exception that left the handler uncaught, or "none"
    nRequests,      \* button presses handled so far in the session
    totalCalls,     \* generate_content invocations so far in the session
    eng             \* the conversion engine exercised on its own (SpecEngine)

vars == <<api_key, phase, path, input, messages, parsed, engineCalls, serviceCalls,
          fault, nRequests, totalCalls, eng>>

-----------------------------------------------------------------------------
(* Multi-limb naturals: little-endian sequences of limbs below 2^15, with  *)
(* no leading zero limb; zero is the empty sequence.                       *)

Base == 2^15

RECURSIVE BNorm(_)
BNorm(a) ==
    IF a = <<>> THEN <<>>
    ELSE IF a[Len(a)] = 0 THEN BNorm(SubSeq(a, 1, Len(a) - 1))
    ELSE a

RECURSIVE BOfInt(_)
BOfInt(n) == IF n = 0 THEN <<>> ELSE <<n % Base>> \o BOfInt(n \div Base)

RECURSIVE BAddC(_, _, _)
BAddC(a, b, c) ==
    IF a = <<>> /\ b = <<>> THEN (IF c = 0 THEN <<>> ELSE <<c>>)
    ELSE LET x == IF a = <<>> THEN 0 ELSE Head(a)
             y == IF b = <<>> THEN 0 ELSE Head(b)
             t == x + y + c
         IN  <<t % Base>> \o BAddC(IF a = <<>> THEN <<>> ELSE Tail(a),
                                   IF b = <<>> THEN <<>> ELSE Tail(b),
                                   t \div Base)

BAdd(a, b) == BAddC(a, b, 0)

\* a - b - c for a >= b + c
RECURSIVE BSubC(_, _, _)
BSubC(a, b, c) ==
    IF a = <<>> THEN <<>>
    ELSE LET y == IF b = <<>> THEN 0 ELSE Head(b)
             t == Head(a) - y - c
         IN  <<IF t < 0 THEN t + Base ELSE t>>
             \o BSubC(Tail(a), IF b = <<>> THEN <<>> ELSE Tail(b),
                      IF t < 0 THEN 1 ELSE 0)

BSub(a, b) == BNorm(BSubC(a, b, 0))

\* -1, 0, 1 as a < b, a = b, a > b
RECURSIVE BCmpFrom(_, _, _)
BCmpFrom(a, b, i) ==
    IF i = 0 THEN 0
    ELSE IF a[i] < b[i] THEN -1
    ELSE IF a[i] > b[i] THEN 1
    ELSE BCmpFrom(a, b, i - 1)

BCmp(a, b) ==
    IF Len(a) < Len(b) THEN -1
    ELSE IF Len(a) > Len(b) THEN 1
    ELSE BCmpFrom(a, b, Len(a))

\* a * k + c for a limb k
RECURSIVE BMulSmallC(_, _, _)
BMulSmallC(a, k, c) ==
    IF a = <<>> THEN (IF c = 0 THEN <<>> ELSE <<c>>)
    ELSE LET t == Head(a) * k + c
         IN  <<t % Base>> \o BMulSmallC(Tail(a), k, t \div Base)

BMulSmall(a, k) == IF k = 0 THEN <<>> ELSE BMulSmallC(a, k, 0)

RECURSIVE BMul(_, _)
BMul(a, b) ==
    IF a = <<>> \/ b = <<>> THEN <<>>
    ELSE LET rest == BMul(a, Tail(b))
         IN  BAdd(BMulSmall(a, Head(b)),
                  IF rest = <<>> THEN <<>> ELSE <<0>> \o rest)

RECURSIVE Zeros(_)
Zeros(n) == IF n = 0 THEN <<>> ELSE <<0>> \o Zeros(n - 1)

\* a * 2^n
BShl(a, n) ==
    IF a = <<>> THEN <<>>
    ELSE Zeros(n \div 15) \o BMulSmall(a, 2^(n % 15))

\* floor(a / k) for a limb k > 0, from the top limb down
RECURSIVE BDivSmallFrom(_, _, _, _)
BDivSmallFrom(a, k, i, r) ==
    IF i = 0 THEN <<>>
    ELSE LET t == r * Base + a[i]
         IN  BDivSmallFrom(a, k, i - 1, t % k) \o <<t \div k>>

\* floor(a / 2^n)
BShr(a, n) ==
    LET drop == n \div 15
        kept == IF drop >= Len(a) THEN <<>> ELSE SubSeq(a, drop + 1, Len(a))
    IN  BNorm(BDivSmallFrom(kept, 2^(n % 15), Len(kept), 0))

RECURSIVE IntBitLen(_)
IntBitLen(n) == IF n = 0 THEN 0 ELSE 1 + IntBitLen(n \div 2)

BBitLen(a) == IF a = <<>> THEN 0 ELSE 15 * (Len(a) - 1) + IntBitLen(a[Len(a)])

BIsOdd(a) == a # <<>> /\ a[1] % 2 = 1

\* The largest limb d with d * b <= r, for r < b * 2^15: one bit a step from
\* the top bit down.
RECURSIVE BDigit(_, _, _, _)
BDigit(r, b, bit, d) ==
    IF bit < 0 THEN d
    ELSE LET d1 == d + 2^bit
         IN  IF BCmp(BMulSmall(b, d1), r) <= 0
             THEN BDigit(r, b, bit - 1, d1)
             ELSE BDigit(r, b, bit - 1, d)

\* Long division, one limb of the quotient a step: from the quotient q and
\* the remainder r so far to floor(.. * 2^(15 n) / b) and whether a remainder
\* is left.
RECURSIVE BDivLimbs(_, _, _, _)
BDivLimbs(q, r, b, n) ==
    IF n = 0 THEN [q |-> q, sticky |-> (r # <<>>)]
    ELSE LET r1 == IF r = <<>> THEN <<>> ELSE <<0>> \o r
             d  == BDigit(r1, b, 14, 0)
             r2 == BSub(r1, BMulSmall(b, d))
         IN  IF d = 0 /\ q = <<>>
             THEN BDivLimbs(<<>>, r2, b, n - 1)
             ELSE BDivLimbs(<<d>> \o q, r2, b, n - 1)

\* floor(a * 2^60 / b) and whether a remainder is left, for 0 < a < 2b
BDivScaled(a, b) ==
    LET ge == BCmp(a, b) >= 0
    IN  BDivLimbs(IF ge THEN <<1>> ELSE <<>>, IF ge THEN BSub(a, b) ELSE a, b, 4)

-----------------------------------------------------------------------------
(* Python floats: [s, m, e] stands for (-1)^s * m * 2^e with m of exactly  *)
(* 53 bits.  The values with no significand (m = <<>>) are told apart by   *)
(* e: 0.0 (e = 0), the infinities (e = 1) and NaN (e = 2).                 *)

FZero == [s |-> 0, m |-> <<>>, e |-> 0]
FInf(s) == [s |-> s, m |-> <<>>, e |-> 1]
FNaN == [s |-> 0, m |-> <<>>, e |-> 2]

IsZero(a) == a.m = <<>> /\ a.e = 0
IsInf(a) == a.m = <<>> /\ a.e = 1
IsNaN(a) == a.m = <<>> /\ a.e = 2

\* m * 2^e with m of 53 bits, or the infinity when it is beyond the largest
\* float, (2^53 - 1) * 2^971
FPack(s, m, e) == IF e > 971 THEN FInf(s) ELSE [s |-> s, m |-> m, e |-> e]

\* The float nearest to (-1)^s * M * 2^E, ties to even.
FRound(s, M, E) ==
    LET bl == BBitLen(M)
    IN  IF bl = 0 THEN FZero
        ELSE IF bl <= 53 THEN FPack(s, BShl(M, 53 - bl), E - (53 - bl))
        ELSE LET sh   == bl - 53
                 q    == BShr(M, sh)
                 rem  == BSub(M, BShl(q, sh))
                 half == BShl(<<1>>, sh - 1)
                 c    == BCmp(rem, half)
                 up   == c > 0 \/ (c = 0 /\ BIsOdd(q))
                 q1   == IF up THEN BAdd(q, <<1>>) ELSE q
             IN  IF BBitLen(q1) > 53
                 THEN FPack(s, BShr(q1, 1), E + sh + 1)
                 ELSE FPack(s, q1, E + sh)

FOfInt(n) == IF n < 0 THEN FRound(1, BOfInt(-n), 0) ELSE FRound(0, BOfInt(n), 0)

FNeg(a) == IF IsZero(a) \/ IsNaN(a) THEN a ELSE [a EXCEPT !.s = 1 - a.s]

FAbs(a) == [a EXCEPT !.s = 0]

FMul(a, b) ==
    IF IsNaN(a) \/ IsNaN(b) THEN FNaN
    ELSE IF IsInf(a) \/ IsInf(b)
    THEN (IF IsZero(a) \/ IsZero(b) THEN FNaN ELSE FInf((a.s + b.s) % 2))
    ELSE IF IsZero(a) \/ IsZero(b) THEN FZero
    ELSE FRound((a.s + b.s) % 2, BMul(a.m, b.m), a.e + b.e)

\* b # 0.0
FDiv(a, b) ==
    IF IsNaN(a) \/ IsNaN(b) THEN FNaN
    ELSE IF IsInf(a) THEN (IF IsInf(b) THEN FNaN ELSE FInf((a.s + b.s) % 2))
    ELSE IF IsInf(b) \/ IsZero(a) THEN FZero
    ELSE LET d == BDivScaled(a.m, b.m)
         IN  FRound((a.s + b.s) % 2,
                    BAddC(d.q, d.q, IF d.sticky THEN 1 ELSE 0),
                    a.e - b.e - 61)

\* The sum of two finite floats, neither 0.0
FAddFinite(a, b, e) ==
    LET A  == BShl(a.m, a.e - e)
        B  == BShl(b.m, b.e - e)
        c  == BCmp(A, B)
    IN  IF a.s = b.s THEN FRound(a.s, BAdd(A, B), e)
        ELSE IF c = 0 THEN FZero
        ELSE IF c > 0 THEN FRound(a.s, BSub(A, B), e)
        ELSE FRound(b.s, BSub(B, A), e)

FAdd(a, b) ==
    IF IsNaN(a) \/ IsNaN(b) THEN FNaN
    ELSE IF IsInf(a) THEN (IF IsInf(b) /\ a.s # b.s THEN FNaN ELSE a)
    ELSE IF IsInf(b) THEN b
    ELSE IF IsZero(a) THEN b
    ELSE IF IsZero(b) THEN a
    ELSE FAddFinite(a, b, IF a.e < b.e THEN a.e ELSE b.e)

FSub(a, b) == FAdd(a, FNeg(b))

\* a <= b
FLeDiff(a, b, d) == a = b \/ IsZero(d) \/ (~IsNaN(d) /\ d.s = 1)

FLe(a, b) == ~IsNaN(a) /\ ~IsNaN(b) /\ FLeDiff(a, b, FSub(a, b))

\* A decimal literal n / 10^k: division is correctly rounded and both
\* operands are exact, so this is the float the literal denotes.
Dec(n, k) == FDiv(FOfInt(n), FOfInt(10^k))

-----------------------------------------------------------------------------
(* Python values that reach the engine and the interpreter.  A JSON value  *)
(* is [t, s, n]: a string (t = "str", text s), a number (t = "num", float  *)
(* n), null, or an array (t = "list": like a JSON object, not hashable).   *)

JStr(s) == [t |-> "str",  s |-> s,  n |-> FZero]
JNum(f) == [t |-> "num",  s |-> "", n |-> f]
JNull   == [t |-> "null", s |-> "", n |-> FZero]
JList   == [t |-> "list", s |-> "", n |-> FZero]

Hashable(j) == j.t # "list"

\* d[key] on a dict with string keys: [exc, val]
Subscript(d, key) ==
    IF ~Hashable(key) THEN [exc |-> "TypeError", val |-> FZero]
    ELSE IF key.t = "str" /\ key.s \in DOMAIN d THEN [exc |-> "none", val |-> d[key.s]]
    ELSE [exc |-> "KeyError", val |-> FZero]

-----------------------------------------------------------------------------
(* The conversion engine, src/app.py lines 28-73.                          *)

\* The Temperature table holds three lambdas that no code path calls.
conversions ==
    [Length |-> [meters |-> FOfInt(1), feet |-> Dec(3048, 4), inches |-> Dec(254, 4),
                 centimeters |-> Dec(1, 2), kilometers |-> FOfInt(1000),
                 miles |-> Dec(160934, 2)],
     Weight |-> [kilograms |-> FOfInt(1), pounds |-> Dec(453592, 6),
                 grams |-> Dec(1, 3), ounces |-> Dec(283495, 7)],
     Temperature |-> [Celsius |-> FZero, Fahrenheit |-> FZero, Kelvin |-> FZero],
     Volume |-> [liters |-> FOfInt(1), gallons |-> Dec(378541, 5),
                 milliliters |-> Dec(1, 3)] @@ ("cubic feet" :> Dec(283168, 4))]

F5 == FOfInt(5)
F9 == FOfInt(9)
F32 == FOfInt(32)
F273_15 == Dec(27315, 2)

\* lines 58-63: celsius = ...
ToCelsius(value, from_unit) ==
    IF from_unit = JStr("Fahrenheit") THEN FDiv(FMul(FSub(value, F32), F5), F9)
    ELSE IF from_unit = JStr("Kelvin") THEN FSub(value, F273_15)
    ELSE value

\* A converter that forgets the Fahrenheit offset on the way out.
FromCelsiusNoOffset(celsius, to_unit) ==
    IF to_unit = JStr("Fahrenheit") THEN FDiv(FMul(celsius, F9), F5)
    ELSE IF to_unit = JStr("Kelvin") THEN FAdd(celsius, F273_15)
    ELSE celsius

\* lines 64-69: return ...
FromCelsius(celsius, to_unit) ==
    IF to_unit = JStr("Fahrenheit") THEN FAdd(FDiv(FMul(celsius, F9), F5), F32)
    ELSE IF to_unit = JStr("Kelvin") THEN FAdd(celsius, F273_15)
    ELSE celsius

\* A converter that multiplies by the target factor instead of dividing.
LinearMultiplies(value, from_factor, to_factor) ==
    FMul(FMul(value, from_factor), to_factor)

\* lines 71-72 once both factors are found: to_base, then result
Linear(value, from_factor, to_factor) ==
    FDiv(FMul(value, from_factor), to_factor)

Returned(v) == [exc |-> "none", val |-> v]
Raised(e) == [exc |-> e, val |-> FZero]

\* lines 71-73, both factors looked up: from_unit first (line 71), then
\* to_unit (line 72)
WithFactors(value, f, t) ==
    IF f.exc # "none" THEN Raised(f.exc)
    ELSE IF t.exc # "none" THEN Raised(t.exc)
    ELSE Returned(Linear(value, f.val, t.val))

\* lines 71-72, conversions[category] looked up
WithTable(value, from_unit, to_unit, table) ==
    IF table.exc # "none" THEN Raised(table.exc)
    ELSE WithFactors(value, Subscript(table.val, from_unit),
                     Subscript(table.val, to_unit))

\* convert_units(value, from_unit, to_unit, category): the float returned, or
\* the exception raised.
convert_units(value, from_unit, to_unit, category) ==
    IF category = JStr("Temperature")
    THEN Returned(FromCelsius(ToCelsius(value, from_unit), to_unit))
    ELSE WithTable(value, from_unit, to_unit, Subscript(conversions, category))

\* lines 204-209
unit_options ==
    [Length |-> <<"meters", "feet", "inches", "centimeters", "kilometers", "miles">>,
     Weight |-> <<"kilograms", "pounds", "grams", "ounces">>,
     Temperature |-> <<"Celsius", "Fahrenheit", "Kelvin">>,
     Volume |-> <<"liters", "gallons", "milliliters", "cubic feet">>]

\* line 213
categories == <<"Length", "Weight", "Temperature", "Volume">>

Range(seq) == {seq[i] : i \in DOMAIN seq}

-----------------------------------------------------------------------------
(* Response text.  A text is a sequence of tokens [k, d]:                  *)
(*   "fence"  the three backticks                                          *)
(*   "json"   the word json, as it follows an opening fence                *)
(*   "ws"     white space (blanks, line breaks)                            *)
(*   "prose"  any other words: not JSON                                    *)
(*   "doc"    the whole JSON text of document d                            *)
(*   "head", "tail"  the JSON text of document d before and after three    *)
(*            backticks that stand inside one of its string literals       *)
(* A document is [kind, keys, value, from_unit, to_unit, category]: kind   *)
(* is "object" (with the keys present and the four fields' values) or the  *)
(* kind of another JSON value.                                             *)

RequiredKeys == {"value", "from_unit", "to_unit", "category"}

Obj(keys, v, f, t, c) ==
    [kind |-> "object", keys |-> keys, value |-> v, from_unit |-> f,
     to_unit |-> t, category |-> c]

NonObj(kind) ==
    [kind |-> kind, keys |-> {}, value |-> JNull, from_unit |-> JNull,
     to_unit |-> JNull, category |-> JNull]

NoDoc == NonObj("none")

Tok(k) == [k |-> k, d |-> NoDoc]
Fence == Tok("fence")
JsonWord == Tok("json")
Ws == Tok("ws")
Prose == Tok("prose")

\* Strings of the documents that hold three backticks (the lexer of TLA+ has
\* no backtick in strings, so the string is named, not spelled)
FencedStrings == {"<three backticks>"}

HoldsFence(d) ==
    \E j \in {d.value, d.from_unit, d.to_unit, d.category} :
        j.t = "str" /\ j.s \in FencedStrings

\* The JSON text of a document
Dumps(d) ==
    IF HoldsFence(d) THEN <<[k |-> "head", d |-> d], Fence, [k |-> "tail", d |-> d]>>
    ELSE <<[k |-> "doc", d |-> d]>>

\* str.strip()
RECURSIVE LStrip(_)
LStrip(text) ==
    IF text # <<>> /\ Head(text) = Ws THEN LStrip(Tail(text)) ELSE text

RECURSIVE RStrip(_)
RStrip(text) ==
    IF text # <<>> /\ text[Len(text)] = Ws
    THEN RStrip(SubSeq(text, 1, Len(text) - 1))
    ELSE text

Strip(text) == RStrip(LStrip(text))

\* Where sep first occurs in text at or after position i; 0 if nowhere
RECURSIVE Find(_, _, _)
Find(text, sep, i) ==
    IF i + Len(sep) - 1 > Len(text) THEN 0
    ELSE IF SubSeq(text, i, i + Len(sep) - 1) = sep THEN i
    ELSE Find(text, sep, i + 1)

\* sep in text
Contains(text, sep) == Find(text, sep, 1) # 0

\* text.split(sep): the pieces between the occurrences of sep, left to right
RECURSIVE Split(_, _)
Split(text, sep) ==
    LET i == Find(text, sep, 1)
    IN  IF i = 0 THEN <<text>>
        ELSE <<SubSeq(text, 1, i - 1)>>
             \o Split(SubSeq(text, i + Len(sep), Len(text)), sep)

\* json.loads(text): the document, or JSONDecodeError.  White space around
\* the one JSON value is allowed; anything else is not JSON.
Loads(text) ==
    LET core == Strip(text)
    IN  IF Len(core) = 1 /\ core[1].k = "doc"
        THEN [exc |-> "none", doc |-> core[1].d]
        ELSE IF Len(core) = 3 /\ core[1].k = "head" /\ core[2] = Fence
                /\ core[3].k = "tail" /\ core[3].d = core[1].d
        THEN [exc |-> "none", doc |-> core[1].d]
        ELSE [exc |-> "JSONDecodeError", doc |-> NoDoc]

\* lines 102-107: raw_response after the fences are cut away
CleanResponse(text) ==
    LET raw_response == Strip(text)
    IN  IF Contains(raw_response, <<Fence, JsonWord>>)
        THEN Strip(Split(Split(raw_response, <<Fence, JsonWord>>)[2], <<Fence>>)[1])
        ELSE IF Contains(raw_response, <<Fence>>)
        THEN Strip(Split(raw_response, <<Fence>>)[2])
        ELSE raw_response

\* float(x) for the strings of the documents: [exc, val]
FloatOfStr(s) ==
    CASE s = "5"   -> Returned(FOfInt(5))
      [] s = "-40" -> Returned(FOfInt(-40))
      [] OTHER     -> Raised("ValueError")

\* float(x) for a JSON value: line 122
Float(j) ==
    CASE j.t = "num" -> Returned(j.n)
      [] j.t = "str" -> FloatOfStr(j.s)
      [] OTHER       -> Raised("TypeError")

-----------------------------------------------------------------------------
(* The interpreter, src/app.py lines 76-130.                               *)

\* An st.success / st.error / st.warning call: its kind, the fixed part of
\* its text, the exception it formats (or "none"), the value it names (or
\* null) and the number it shows (or 0.0).
Msg(kind, text, exc, about, num) ==
    [kind |-> kind, text |-> text, exc |-> exc, about |-> about, num |-> num]

Error(text, exc, about) == Msg("error", text, exc, about, FZero)

None ==
    [some |-> FALSE, value |-> FZero, from_unit |-> JNull, to_unit |-> JNull,
     category |-> JNull]

Tuple(v, f, t, c) ==
    [some |-> TRUE, value |-> v, from_unit |-> f, to_unit |-> t, category |-> c]

\* line 117
valid_categories == {"Length", "Weight", "Temperature", "Volume"}

\* What the external service did with the one request: raised, or returned
\* the text raw.
ServiceError == [kind |-> "error", shape |-> "none", doc |-> NoDoc, raw |-> <<>>]
ServiceText(shape, d, raw) == [kind |-> "text", shape |-> shape, doc |-> d, raw |-> raw]
NoOutcome == [kind |-> "none", shape |-> "none", doc |-> NoDoc, raw |-> <<>>]

\* parse_with_gemini(input_text), given the service's outcome: what it
\* returns (ret), the st.error calls it makes (msgs) and the
\* generate_content calls it makes (calls: line 93, once, in no loop).
parse_with_gemini(outcome) ==
    LET Fail(text, exc, about) ==
            [ret |-> None, msgs |-> <<Error(text, exc, about)>>, calls |-> 1]
        loaded == Loads(CleanResponse(outcome.raw))
        result == loaded.doc
        value  == Float(result.value)
    IN  IF outcome.kind = "error"
        THEN Fail("Gemini API error", "ServiceError", JNull)                \* 128-130
        ELSE IF loaded.exc # "none"
        THEN Fail("Failed to parse JSON", loaded.exc, JNull)                \* 124-126
        ELSE IF result.kind # "object"
        THEN Fail("Gemini API error", "AttributeError", JNull)              \* 113, 128
        ELSE IF ~(RequiredKeys \subseteq result.keys)
        THEN Fail("Response is missing required keys.", "none", JNull)      \* 113-115
        ELSE IF ~Hashable(result.category)
        THEN Fail("Gemini API error", "TypeError", JNull)                   \* 118, 128
        ELSE IF result.category \notin {JStr(c) : c \in valid_categories}
        THEN Fail("Invalid category", "none", result.category)              \* 118-120
        ELSE IF value.exc # "none"
        THEN Fail("Gemini API error", value.exc, JNull)                     \* 122, 128
        ELSE [ret |-> Tuple(value.val, result.from_unit, result.to_unit,
                            result.category),
              msgs |-> <<>>, calls |-> 1]                                   \* 122

-----------------------------------------------------------------------------
(* The two button handlers, src/app.py lines 224-229 and 234-250.  A run   *)
(* yields the messages shown, what the interpreter returned, the engine    *)
(* invocations, the service calls and the exception that left the handler. *)

Call(v, f, t, c) == [value |-> v, from_unit |-> f, to_unit |-> t, category |-> c]

Run(msgs, ret, calls, n, exc) ==
    [messages |-> msgs, parsed |-> ret, engineCalls |-> calls, serviceCalls |-> n,
     fault |-> exc]

\* lines 226-227, the engine having answered r: no try around the engine
ManualConverted(call, r) ==
    IF r.exc = "none"
    THEN Run(<<Msg("success", "result", "none", JNull, r.val)>>, None, <<call>>,
             0, "none")
    ELSE Run(<<>>, None, <<call>>, 0, r.exc)

\* lines 224-229
ManualHandler(category, from_unit, to_unit, value) ==
    IF FLe(FZero, value)
    THEN ManualConverted(
             Call(value, JStr(from_unit), JStr(to_unit), JStr(category)),
             convert_units(value, JStr(from_unit), JStr(to_unit), JStr(category)))
    ELSE Run(<<Error("Please enter a positive value!", "none", JNull)>>, None, <<>>,
             0, "none")

\* lines 242-246, the engine having answered r: KeyError and ValueError are
\* caught, nothing else is
AIConverted(p_ret, msgs, n, call, r) ==
    CASE r.exc = "none" ->
           Run(msgs \o <<Msg("success", "result", "none", JNull, r.val)>>,
               p_ret, <<call>>, n, "none")
      [] r.exc = "KeyError" ->
           Run(msgs \o <<Error("Unsupported unit", "KeyError", JNull)>>,
               p_ret, <<call>>, n, "none")
      [] r.exc = "ValueError" ->
           Run(msgs \o <<Error("Invalid number in request!", "none", JNull)>>,
               p_ret, <<call>>, n, "none")
      [] OTHER -> Run(msgs, p_ret, <<call>>, n, r.exc)

\* What lines 238-248 do with the interpreter's return p_ret, after msgs
\* were shown and n service calls made.
AfterParse(p_ret, msgs, n) ==
    IF p_ret.some
    THEN AIConverted(p_ret, msgs, n,
             Call(p_ret.value, p_ret.from_unit, p_ret.to_unit, p_ret.category),
             convert_units(p_ret.value, p_ret.from_unit, p_ret.to_unit,
                           p_ret.category))
    ELSE Run(msgs \o <<Error("Couldn't parse your request. Try again!", "none", JNull)>>,
             p_ret, <<>>, n, "none")

\* The interpreter's answer p handed on
Parsed(p) == AfterParse(p.ret, p.msgs, p.calls)

\* The second answer q handed on when the first, p, held no tuple
Reparsed(p, q) ==
    IF p.ret.some THEN Parsed(p)
    ELSE AfterParse(q.ret, p.msgs \o q.msgs, p.calls + q.calls)

\* The interpreter's answer p handed on unless its value is negative
ParsedSignRule(p) ==
    IF p.ret.some /\ ~FLe(FZero, p.ret.value)
    THEN Run(p.msgs \o <<Error("Please enter a positive value!", "none", JNull)>>,
             p.ret, <<>>, p.calls, "none")
    ELSE Parsed(p)

\* A handler that asks the service again when the first answer fails.
AIHandlerRetries(user_input, outcome) ==
    IF user_input # ""
    THEN Reparsed(parse_with_gemini(outcome), parse_with_gemini(outcome))
    ELSE Run(<<Msg("warning", "Please enter a request first!", "none", JNull, FZero)>>,
             None, <<>>, 0, "none")

\* A handler that applies the manual path's sign rule to the parsed value.
AIHandlerSignRule(user_input, outcome) ==
    IF user_input # ""
    THEN ParsedSignRule(parse_with_gemini(outcome))
    ELSE Run(<<Msg("warning", "Please enter a request first!", "none", JNull, FZero)>>,
             None, <<>>, 0, "none")

\* lines 234-250
AIHandler(user_input, outcome) ==
    IF user_input # ""
    THEN Parsed(parse_with_gemini(outcome))
    ELSE Run(<<Msg("warning", "Please enter a request first!", "none", JNull, FZero)>>,
             None, <<>>, 0, "none")

-----------------------------------------------------------------------------
(* Inputs.                                                                 *)

\* Button presses handled in one session
MaxRequests == 2

\* st.number_input(min_value=0.0), line 222: the widget yields no negative
ManualValues ==
    {FZero, Dec(1, 1), FOfInt(1), FOfInt(5), FOfInt(7), FOfInt(100), F273_15}

\* Text typed into the AI tab
UserTexts == {"", "convert 5 feet to meters"}

js_feet == JStr("feet")
js_meters == JStr("meters")
js_Length == JStr("Length")

\* Well-formed answers
GoodDocs ==
    {Obj(RequiredKeys, v, r[1], r[2], r[3]) :
        v \in {JNum(FOfInt(5)), JNum(FOfInt(-40)), JNum(Dec(1, 1))},
        r \in {<<js_feet, js_meters, js_Length>>,
               <<JStr("miles"), JStr("kilometers"), js_Length>>,
               <<JStr("Fahrenheit"), JStr("Celsius"), JStr("Temperature")>>,
               <<JStr("kilograms"), JStr("pounds"), JStr("Weight")>>,
               <<JStr("gallons"), JStr("liters"), JStr("Volume")>>}}

\* The answer to "convert 5 feet to meters" with one field of another JSON
\* type or content, with keys missing, and answers that are no JSON object
OddDocs ==
    {Obj(RequiredKeys, v, js_feet, js_meters, js_Length) :
        v \in {JStr("5"), JStr("abc"), JNull, JList}}
    \cup {Obj(RequiredKeys, JNum(FOfInt(5)), f, js_meters, js_Length) :
        f \in {JStr("unknown_unit"), JStr("cm"), JNull, JList, JNum(FOfInt(5)),
               JStr("<three backticks>")}}
    \cup {Obj(RequiredKeys, JNum(FOfInt(5)), js_feet, t, js_Length) :
        t \in {JStr("unknown_unit"), JList, JStr("<three backticks>")}}
    \cup {Obj(RequiredKeys, JNum(FOfInt(5)), js_feet, js_meters, c) :
        c \in {JStr("Speed"), JStr("length"), JNull, JList, JNum(FOfInt(5))}}
    \cup {Obj(RequiredKeys, JNum(FOfInt(5)), f, JStr("Kelvin"), JStr("Temperature")) :
        f \in {JStr("unknown_unit"), js_feet, JList}}
    \cup {Obj(keys, JNum(FOfInt(5)), js_feet, js_meters, js_Length) :
        keys \in (SUBSET RequiredKeys) \ {RequiredKeys}}
    \cup {NonObj(k) : k \in {"array", "string", "number", "null"}}

Docs == GoodDocs \cup OddDocs

\* How the service wraps the JSON text of d
Wrap(shape, d) ==
    CASE shape = "bare"          -> Dumps(d)
      [] shape = "bare_ws"       -> <<Ws>> \o Dumps(d) \o <<Ws>>
      [] shape = "fence_json"    -> <<Fence, JsonWord, Ws>> \o Dumps(d) \o <<Ws, Fence>>
      [] shape = "fence_json_ws" -> <<Ws, Fence, JsonWord>> \o Dumps(d) \o <<Fence, Ws>>
      [] shape = "fence_plain"   -> <<Fence, Ws>> \o Dumps(d) \o <<Ws, Fence>>
      [] shape = "fence_open"    -> <<Fence, JsonWord, Ws>> \o Dumps(d)
      [] shape = "fence_tag"     -> <<Fence, Prose, Ws>> \o Dumps(d) \o <<Ws, Fence>>
      [] shape = "prose_fence"   -> <<Prose, Ws, Fence, JsonWord, Ws>> \o Dumps(d)
                                    \o <<Ws, Fence, Ws, Prose>>
      [] shape = "prose_bare"    -> <<Prose, Ws>> \o Dumps(d)
      [] shape = "prose"         -> <<Prose>>
      [] shape = "empty"         -> <<>>

DocShapes ==
    {"bare", "bare_ws", "fence_json", "fence_json_ws", "fence_plain", "fence_open",
     "fence_tag", "prose_fence", "prose_bare"}

Outcomes ==
    {ServiceError}
    \cup {ServiceText(shape, d, Wrap(shape, d)) : shape \in DocShapes, d \in Docs}
    \cup {ServiceText(shape, NoDoc, Wrap(shape, NoDoc)) : shape \in {"prose", "empty"}}

NoInput ==
    [category |-> "", from_unit |-> "", to_unit |-> "", value |-> FZero,
     text |-> "", outcome |-> NoOutcome]

ManualInput(c, f, t, v) ==
    [category |-> c, from_unit |-> f, to_unit |-> t, value |-> v,
     text |-> "", outcome |-> NoOutcome]

AIInput(text, outcome) ==
    [category |-> "", from_unit |-> "", to_unit |-> "", value |-> FZero,
     text |-> text, outcome |-> outcome]

-----------------------------------------------------------------------------
(* The session: the script waits ("idle"), a button press runs one handler *)
(* to its end ("shown"), and the next interaction re-runs the script,      *)
(* which clears the page.                                                  *)

NoResult == [exc |-> "unset", val |-> FZero]

EngOff ==
    [stage |-> "off", value |-> FZero, from_unit |-> JNull, to_unit |-> JNull,
     category |-> JNull, res |-> NoResult, back |-> NoResult]

\* os.getenv("GEMINI_API_KEY") after load_dotenv(), line 19: None when the
\* variable is not set, or its text
NoKey == [set |-> FALSE, s |-> ""]
Key(text) == [set |-> TRUE, s |-> text]
ApiKeys == {NoKey, Key(""), Key("secret")}

\* The truth value of api_key, line 21: None and "" are false
Truthy(k) == k.set /\ k.s # ""

\* line 22
KeyWarning ==
    Msg("warning", "Please set your GEMINI_API_KEY in the .env file.", "none",
        JNull, FZero)

\* lines 21-23: without a key every run of the script warns and stops at
\* st.stop(); no widget is drawn, no handler is reached
Stopped == Run(<<KeyWarning>>, None, <<>>, 0, "none")

\* The messages of a run in which no button is pressed
Page(k) == IF Truthy(k) THEN <<>> ELSE <<KeyWarning>>

Cleared ==
    /\ phase = "idle"
    /\ path = "none"
    /\ input = NoInput
    /\ messages = Page(api_key)
    /\ parsed = None
    /\ engineCalls = <<>>
    /\ serviceCalls = 0
    /\ fault = "none"

\* The first run of the script, no button pressed
Init ==
    /\ api_key \in ApiKeys
    /\ Cleared
    /\ nRequests = 0
    /\ totalCalls = 0
    /\ eng = EngOff

Show(p, in, run) ==
    /\ phase' = "shown"
    /\ path' = p
    /\ input' = in
    /\ messages' = run.messages
    /\ parsed' = run.parsed
    /\ engineCalls' = run.engineCalls
    /\ serviceCalls' = run.serviceCalls
    /\ fault' = run.fault
    /\ nRequests' = nRequests + 1
    /\ totalCalls' = totalCalls + run.serviceCalls
    /\ UNCHANGED <<api_key, eng>>

\* A run of the script started by a button press: lines 19-23, and with a
\* key the handler p, which reads the inputs in and does what run records
Script(p, in, run) ==
    IF Truthy(api_key) THEN Show(p, in, run) ELSE Show("stopped", NoInput, Stopped)

\* "Convert Now" pressed: lines 19-23, 213-229
ManualConvert ==
    /\ phase = "idle"
    /\ nRequests < MaxRequests
    /\ \E c \in Range(categories) :
         \E f \in Range(unit_options[c]), t \in Range(unit_options[c]) :
           \E v \in ManualValues :
             Script("manual", ManualInput(c, f, t, v), ManualHandler(c, f, t, v))

\* "Convert with AI" pressed: lines 19-23, 233-250.  With no text typed the
\* service is not asked and has no outcome.
AIConvert ==
    /\ phase = "idle"
    /\ nRequests < MaxRequests
    /\ \E text \in UserTexts :
         \E outcome \in IF text = "" THEN {NoOutcome} ELSE Outcomes :
           Script("ai", AIInput(text, outcome), AIHandler(text, outcome))

\* Any later interaction: the script runs again from the top and the page
\* of the run before is gone (lines 224, 234: st.button is True only in the
\* run its press starts).
Rerun ==
    /\ phase = "shown"
    /\ phase' = "idle"
    /\ path' = "none"
    /\ input' = NoInput
    /\ messages' = Page(api_key)
    /\ parsed' = None
    /\ engineCalls' = <<>>
    /\ serviceCalls' = 0
    /\ fault' = "none"
    /\ UNCHANGED <<api_key, nRequests, totalCalls, eng>>

Next == ManualConvert \/ AIConvert \/ Rerun

Spec == Init /\ [][Next]_vars

-----------------------------------------------------------------------------
(* The engine on its own: the arguments are drawn at the start, convert    *)
(* is applied to them, and then to its result in the other direction.      *)
(* convert_units is defined at line 28, after the stop of line 23: it      *)
(* exists only in a run that has a key.                                    *)

\* 2^n as a float
FPow2(n) == [s |-> 0, m |-> BShl(<<1>>, 52), e |-> n - 52]

\* Values of everyday size, and two near the upper end of the float range:
\* 2^996 (about 6.7e299) and 2^1021 (about 2.2e307)
EngValues ==
    {FZero, Dec(1, 1), FOfInt(1), FOfInt(5), FOfInt(7), FOfInt(32), FOfInt(100),
     FOfInt(-40), F273_15, FPow2(996), FPow2(1021)}

AllUnits == UNION {Range(unit_options[c]) : c \in Range(categories)}

EngUnits == AllUnits \cup {"unknown_unit"}

EngCategories == Range(categories) \cup {"Speed"}

EngInit ==
    /\ api_key = Key("secret")
    /\ Cleared
    /\ nRequests = 0
    /\ totalCalls = 0
    /\ \E v \in EngValues, f \in EngUnits, t \in EngUnits, c \in EngCategories :
         eng = [stage |-> "args", value |-> v, from_unit |-> JStr(f),
                to_unit |-> JStr(t), category |-> JStr(c),
                res |-> NoResult, back |-> NoResult]

EngConvert ==
    /\ eng.stage = "args"
    /\ eng' = [eng EXCEPT !.stage = "converted",
                          !.res = convert_units(eng.value, eng.from_unit,
                                                eng.to_unit, eng.category)]
    /\ UNCHANGED <<api_key, phase, path, input, messages, parsed, engineCalls,
                   serviceCalls, fault, nRequests, totalCalls>>

EngConvertBack ==
    /\ eng.stage = "converted"
    /\ eng.res.exc = "none"
    /\ eng' = [eng EXCEPT !.stage = "returned",
                          !.back = convert_units(eng.res.val, eng.to_unit,
                                                 eng.from_unit, eng.category)]
    /\ UNCHANGED <<api_key, phase, path, input, messages, parsed, engineCalls,
                   serviceCalls, fault, nRequests, totalCalls>>

EngNext == EngConvert \/ EngConvertBack

SpecEngine == EngInit /\ [][EngNext]_vars

-----------------------------------------------------------------------------
(* Properties.                                                             *)

\* Category c is supported and f, t are units of it (section 4.1)
ValidArgs(f, t, c) ==
    /\ c.t = "str" /\ c.s \in Range(categories)
    /\ f.t = "str" /\ f.s \in Range(unit_options[c.s])
    /\ t.t = "str" /\ t.s \in Range(unit_options[c.s])

EngValid == ValidArgs(eng.from_unit, eng.to_unit, eng.category)

FOne == FOfInt(1)

\* 2^-30
Tolerance == FPow2(-30)

\* 2^996, about 6.7e299: no conversion of a value up to it overflows
MaxMagnitude == FPow2(996)

InRange(v) == FLe(FAbs(v), MaxMagnitude)

Scale(v) == IF FLe(FOne, FAbs(v)) THEN FAbs(v) ELSE FOne

\* |a - b| <= 2^-30 * max(1, |b|)
Close(a, b) == FLe(FAbs(FSub(a, b)), FMul(Tolerance, Scale(b)))

AIShown == phase = "shown" /\ path = "ai" /\ input.text # ""

\* The document the interpreter reads out of the service's text
Answer == Loads(CleanResponse(input.outcome.raw))

Answered == AIShown /\ input.outcome.kind = "text" /\ Answer.exc = "none"

SupportedCategory(c) == c.t = "str" /\ c.s \in valid_categories

InterpreterErrors ==
    {"Gemini API error", "Failed to parse JSON",
     "Response is missing required keys.", "Invalid category"}

Texts(msgs) == {msgs[i].text : i \in DOMAIN msgs}

\* C1: a call of convert_units whose category is not one of the four, or
\* whose from_unit or to_unit is not a unit of the category, raises a lookup
\* failure (KeyError) and returns no number.
C1_InvalidArgsRaiseLookupFailure ==
    (eng.stage = "converted" /\ ~EngValid) => eng.res.exc = "KeyError"

\* C2: when the answer is a JSON object with the four keys and a supported
\* category whose value cannot be coerced to a number, the report is not the
\* one a failed service call gets ("Gemini API error"), nor that of
\* malformed JSON or of a schema violation.
C2_CoercionFailureDistinct ==
    (/\ Answered
     /\ Answer.doc.kind = "object"
     /\ RequiredKeys \subseteq Answer.doc.keys
     /\ SupportedCategory(Answer.doc.category)
     /\ Float(Answer.doc.value).exc # "none")
    => Texts(messages) \cap InterpreterErrors = {}

\* C3: every request, manual or AI, ends in a success, error or warning
\* message, and no exception leaves the handler.
C3_NoUnhandledFault ==
    /\ fault = "none"
    /\ phase = "shown" => messages # <<>>

WrappedShapes == {"bare", "bare_ws", "fence_json", "fence_json_ws", "fence_plain"}

\* C4: when the service's text is a JSON object with a numeric value, the
\* two units and a supported category, bare or inside a json fence or a plain
\* fence, with or without white space around it, parse_with_gemini returns
\* (float(value), from_unit, to_unit, category) and reports no error.
C4_WellFormedAnswerParsed ==
    (/\ AIShown
     /\ input.outcome.kind = "text"
     /\ input.outcome.shape \in WrappedShapes
     /\ input.outcome.doc.kind = "object"
     /\ input.outcome.doc.keys = RequiredKeys
     /\ input.outcome.doc.value.t = "num"
     /\ SupportedCategory(input.outcome.doc.category))
    => /\ parsed = Tuple(input.outcome.doc.value.n, input.outcome.doc.from_unit,
                         input.outcome.doc.to_unit, input.outcome.doc.category)
       /\ Texts(messages) \cap InterpreterErrors = {}

\* C5: when the answer is JSON with the four keys and a category that is
\* not one of the four, the report is the validation error naming that
\* category, no tuple is returned and the engine is not invoked.
C5_InvalidCategoryReported ==
    (/\ Answered
     /\ Answer.doc.kind = "object"
     /\ RequiredKeys \subseteq Answer.doc.keys
     /\ ~SupportedCategory(Answer.doc.category))
    => /\ \E i \in DOMAIN messages :
            /\ messages[i].text = "Invalid category"
            /\ messages[i].about = Answer.doc.category
       /\ ~parsed.some
       /\ engineCalls = <<>>
       /\ fault = "none"

\* C6: when the answer is JSON that lacks one of the four keys, the report
\* is the missing-keys validation error, not that of malformed JSON or any
\* other, no tuple is returned, nothing is left uncaught and the engine is
\* not invoked.
C6_MissingKeysReported ==
    (/\ Answered
     /\ ~(Answer.doc.kind = "object" /\ RequiredKeys \subseteq Answer.doc.keys))
    => /\ Texts(messages) \cap InterpreterErrors
            = {"Response is missing required keys."}
       /\ ~parsed.some
       /\ engineCalls = <<>>
       /\ fault = "none"

\* C7 as stated: for valid units of a supported category and every value,
\* converting the value and converting the result back yields the value,
\* within the tolerance 2^-30 * max(1, |value|).
C7_RoundTrip ==
    (eng.stage = "returned" /\ EngValid)
    => /\ eng.back.exc = "none"
       /\ Close(eng.back.val, eng.value)

\* C7 as amended: the same for every value of magnitude up to 2^996.
C7_RoundTripInRange ==
    (eng.stage = "returned" /\ EngValid /\ InRange(eng.value))
    => /\ eng.back.exc = "none"
       /\ Close(eng.back.val, eng.value)

\* A round trip between two different units that comes back off by rounding
C7_RoundTripWitness ==
    /\ eng.stage = "returned"
    /\ EngValid
    /\ InRange(eng.value)
    /\ eng.from_unit # eng.to_unit
    /\ eng.back.exc = "none"
    /\ eng.back.val # eng.value
    /\ Close(eng.back.val, eng.value)

\* C8 as stated: converting from a valid unit to itself returns exactly the
\* value.
C8_IdentityExact ==
    (eng.stage = "converted" /\ EngValid /\ eng.from_unit = eng.to_unit)
    => eng.res = Returned(eng.value)

\* Units whose conversion to themselves involves no arithmetic that rounds:
\* factor 1.0, and Celsius
ExactUnits == {"meters", "kilograms", "liters", "Celsius"}

\* C8 as amended: converting a value of magnitude up to 2^996 from a valid
\* unit to itself returns the value within the tolerance
\* 2^-30 * max(1, |value|), and exactly the value for the base unit of the
\* category (factor 1.0) and for Celsius.
C8_IdentityWithinRounding ==
    (eng.stage = "converted" /\ EngValid /\ eng.from_unit = eng.to_unit
     /\ InRange(eng.value))
    => /\ eng.res.exc = "none"
       /\ Close(eng.res.val, eng.value)
       /\ eng.from_unit.s \in ExactUnits => eng.res.val = eng.value

\* A conversion from a unit to itself whose result is not the value
C8_IdentityRoundedWitness ==
    /\ eng.stage = "converted"
    /\ EngValid
    /\ InRange(eng.value)
    /\ eng.from_unit = eng.to_unit
    /\ eng.res.exc = "none"
    /\ eng.res.val # eng.value
    /\ Close(eng.res.val, eng.value)

\* C9: a request on the AI path makes at most one call of the service,
\* exactly one when text was typed (whatever the outcome) and none when the
\* text is empty; the manual path makes none; so the calls of a session never
\* outnumber its requests.
C9_AtMostOneServiceCall ==
    /\ serviceCalls <= 1
    /\ AIShown => serviceCalls = 1
    /\ (phase = "shown" /\ path = "ai" /\ input.text = "") => serviceCalls = 0
    /\ path # "ai" => serviceCalls = 0
    /\ totalCalls <= nRequests

\* A request on the AI path that failed after its one call
C9_FailedRequestWitness ==
    /\ AIShown
    /\ ~parsed.some
    /\ Texts(messages) \cap InterpreterErrors # {}
    /\ serviceCalls = 1

\* C10: on the manual path the engine is invoked with values >= 0 only; on
\* the AI path the value the interpreter returned, negative or not, is the
\* value the engine is invoked with.
C10_EngineValueSign ==
    /\ path = "manual" =>
         \A i \in DOMAIN engineCalls : FLe(FZero, engineCalls[i].value)
    /\ (path = "ai" /\ parsed.some) =>
         /\ Len(engineCalls) = 1
         /\ engineCalls[1].value = parsed.value

\* A negative value on the AI path that reached the engine
C10_NegativeOnAIPathWitness ==
    /\ path = "ai"
    /\ parsed.some
    /\ ~FLe(FZero, parsed.value)
    /\ Len(engineCalls) = 1
    /\ engineCalls[1].value = parsed.value

=============================================================================
